---- MODULE Spec2Model ----
(***************************************************************************)
(* Model of fish_diffusion/modules/feature_extractors/chinese_hubert.py:   *)
(* the three feature extractors ChineseHubertSoft (top-k gate),            *)
(* ChineseHubert (optional linear resampling) and EnsembleHubert           *)
(* (channel concatenation followed by optional linear resampling).         *)
(*                                                                         *)
(* The pretrained encoders are external; their output is the input of the  *)
(* code modelled here and is drawn from bounded sets.  Tensor elements are *)
(* modelled as exact rationals extended by NaN, +Inf and -Inf, so that     *)
(* division by zero behaves as IEEE-754 division does; rounding of finite  *)
(* results is not modelled.  forward takes one audio, so the batch axis   *)
(* has size 1 and is left out of the tensors.                              *)
(***************************************************************************)
EXTENDS Integers, Sequences, FiniteSets

(* ---------------------------- bounds ----------------------------------- *)

\* Channel width of the projection feeding the gate (256 in the source,
\* scaled down so that every input can be enumerated).
Channels == 3

\* Time lengths of ChineseHubert's encoder output are drawn from 1 .. MaxT.
MaxT == 5

\* Downsample factors are drawn from None and 1 .. MaxDown.
MaxDown == 3

\* Ensembles hold 0 .. MaxModels encoders.
MaxModels == 3

\* Channel width of an ensemble member is drawn from 1 .. MaxWidth.
MaxWidth == 2

\* Time length of an ensemble member's output is drawn from 1 .. MaxLen.
MaxLen == 3

(* ------------------------ tensor elements ------------------------------ *)

Abs(n) == IF n < 0 THEN -n ELSE n

RECURSIVE GCD(_, _)
GCD(a, b) == IF b = 0 THEN a ELSE GCD(b, a % b)

NaN == [cls |-> "nan", num |-> 0, den |-> 0]
PosInf == [cls |-> "inf", num |-> 1, den |-> 0]
NegInf == [cls |-> "inf", num |-> -1, den |-> 0]

\* The finite value n / d (d # 0) in lowest terms with a positive denominator.
Fin(n, d) ==
    LET g == GCD(Abs(n), Abs(d))
        s == IF d < 0 THEN -1 ELSE 1
    IN  [cls |-> "fin", num |-> (s * n) \div g, den |-> (s * d) \div g]

\* The integer n.
Val(n) == [cls |-> "fin", num |-> n, den |-> 1]

IsFinite(a) == a.cls = "fin"
IsZero(a) == a.cls = "fin" /\ a.num = 0
\* x != 0 as the tensor library evaluates it: NaN and the infinities are non-zero.
NonZero(a) == ~IsZero(a)

\* a + b
RAdd(a, b) ==
    IF a.cls = "nan" \/ b.cls = "nan" THEN NaN
    ELSE IF a.cls = "inf" /\ b.cls = "inf" THEN (IF a.num = b.num THEN a ELSE NaN)
    ELSE IF a.cls = "inf" THEN a
    ELSE IF b.cls = "inf" THEN b
    ELSE Fin(a.num * b.den + b.num * a.den, a.den * b.den)

\* a * b for finite a, b
RMul(a, b) == Fin(a.num * b.num, a.den * b.den)

\* a <= b for finite a, b
RLeq(a, b) == a.num * b.den <= b.num * a.den

\* Variant: a division that guards the zero divisor.
RDivGuarded(a, b) ==
    IF b.num = 0 THEN Val(0) ELSE Fin(a.num * b.den, a.den * b.num)

\* a / b for finite a, b: division by zero raises nothing and yields NaN or
\* a signed infinity.
RDiv(a, b) ==
    IF b.num = 0
    THEN (IF a.num = 0 THEN NaN ELSE IF a.num > 0 THEN PosInf ELSE NegInf)
    ELSE Fin(a.num * b.den, a.den * b.num)

\* Sum of the elements of the sequence row, left to right.
RECURSIVE SumTo(_, _)
SumTo(row, n) == IF n = 0 THEN Val(0) ELSE RAdd(SumTo(row, n - 1), row[n])

RowSum(row) == SumTo(row, Len(row))

\* The absent tensor: what a call that raised has returned.
NoTensor == <<>>

\* downsample: Optional[int]
None == <<>>
Some(d) == <<d>>

(* ------------------------------ state ---------------------------------- *)

VARIABLES
    pc,            \* "new", "ready", "returned" or "raised"
    kind,          \* the class constructed: "none", "Soft", "Hubert", "Ensemble"
    gate_size,     \* ChineseHubertSoft.gate_size
    downsample,    \* ChineseHubert.downsample, EnsembleHubert.downsample
    models,        \* EnsembleHubert: the configured model list, in order
    calls,         \* EnsembleHubert.forward: encoders run so far, in order
    feature_list,  \* EnsembleHubert.forward: the list `features` before cat
    features,      \* the local `features` entering the gate / the resampler
    indices,       \* ChineseHubertSoft._forward: `indices` of each frame
    result,        \* the tensor returned by forward, indexed [channel][time]
    error          \* the primitive that raised, "" if none

vars == <<pc, kind, gate_size, downsample, models, calls, feature_list,
          features, indices, result, error>>

Init ==
    /\ pc = "new"
    /\ kind = "none"
    /\ gate_size = 0
    /\ downsample = None
    /\ models = <<>>
    /\ calls = <<>>
    /\ feature_list = <<>>
    /\ features = NoTensor
    /\ indices = <<>>
    /\ result = NoTensor
    /\ error = ""

(* ------------------------- ChineseHubertSoft --------------------------- *)

\* The gate's input holds two frames of one audio: top-k, scatter and sum all
\* act along the channel axis of each frame independently.
SoftFrames == 1 .. 2

\* The values an element of the gate's input takes: a negative one, zero and a
\* positive one give ties, mixed signs and sums that cancel.
SoftVals == {-1, 0, 1}

SoftInputs ==
    { [t \in SoftFrames |-> [c \in 1 .. Channels |-> Val(x[t][c])]] :
        x \in [SoftFrames -> [1 .. Channels -> SoftVals]] }

\* Variant: a constructor that rejects a gate_size above the channel width.
ChineseHubertSoft_init_validating ==
    /\ pc = "new"
    /\ \E k \in 1 .. Channels + 1 :
        /\ gate_size' = k
        /\ pc' = IF k > Channels THEN "raised" ELSE "ready"
        /\ error' = IF k > Channels THEN "gate_size" ELSE ""
    /\ kind' = "Soft"
    /\ UNCHANGED <<downsample, models, calls, feature_list, features, indices,
                   result>>

\* __init__ stores gate_size as given; nothing compares it with the channel
\* width.
ChineseHubertSoft_init ==
    /\ pc = "new"
    /\ \E k \in 1 .. Channels + 1 :
        gate_size' = k
    /\ kind' = "Soft"
    /\ pc' = "ready"
    /\ UNCHANGED <<downsample, models, calls, feature_list, features, indices,
                   result, error>>

\* Variant: a selection by magnitude.
TorchTopkAbs(row, k) ==
    { I \in SUBSET (1 .. Len(row)) :
        /\ Cardinality(I) = k
        /\ \A i \in I : \A j \in (1 .. Len(row)) \ I :
              RLeq(Val(Abs(row[j].num)), Val(Abs(row[i].num))) }

\* torch.topk(row, k) along the channel axis: the possible index sets.  Any k
\* channels such that no channel left out holds a larger value; the library
\* does not define which of several equal values is taken.
TorchTopk(row, k) ==
    { I \in SUBSET (1 .. Len(row)) :
        /\ Cardinality(I) = k
        /\ \A i \in I : \A j \in (1 .. Len(row)) \ I : RLeq(row[j], row[i]) }

\* torch.topk(features, k, dim=2): one index set for each of the first n
\* frames.
RECURSIVE TopkFrames(_, _, _)
TopkFrames(x, k, n) ==
    IF n = 0 THEN {<<>>}
    ELSE { Append(p, I) : p \in TopkFrames(x, k, n - 1), I \in TorchTopk(x[n], k) }

\* Variant: a scatter into ones_like.
TorchScatterOnes(row, I) ==
    [c \in 1 .. Len(row) |-> IF c \in I THEN row[c] ELSE Val(1)]

\* torch.zeros_like(row).scatter(2, indices, topk)
TorchScatter(row, I) ==
    [c \in 1 .. Len(row) |-> IF c \in I THEN row[c] ELSE Val(0)]

\* Variant: a division by the sum of the magnitudes.
NormalizeL1(row) ==
    LET s == RowSum([c \in 1 .. Len(row) |-> Val(Abs(row[c].num))])
    IN  [c \in 1 .. Len(row) |-> RDiv(row[c], s)]

\* features / features.sum(2, keepdim=True)
Normalize(row) ==
    LET s == RowSum(row)
    IN  [c \in 1 .. Len(row) |-> RDiv(row[c], s)]

\* x.transpose(1, 2) of a tensor indexed [a][b] with nb entries per row.
Transpose(x, nb) ==
    [b \in 1 .. nb |-> [a \in 1 .. Len(x) |-> x[a][b]]]

\* Variant: the normalisation applied to the dense features.
GateDense(x, idx) ==
    [t \in 1 .. Len(x) |-> Normalize(x[t])]

\* Lines 61-62 for every frame of the tensor.
Gate(x, idx) ==
    [t \in 1 .. Len(x) |-> Normalize(TorchScatter(x[t], idx[t]))]

ChineseHubertSoft_forward ==
    /\ pc = "ready"
    /\ kind = "Soft"
    /\ \E x \in SoftInputs :
        /\ features' = x
        /\ IF gate_size > Channels
           THEN /\ pc' = "raised"
                /\ error' = "topk"
                /\ indices' = <<>>
                /\ result' = NoTensor
           ELSE \E idx \in TopkFrames(x, gate_size, Len(x)) :
                /\ indices' = idx
                /\ result' = Transpose(Gate(x, idx), Channels)
                /\ pc' = "returned"
                /\ error' = ""
    /\ UNCHANGED <<kind, gate_size, downsample, models, calls, feature_list>>

(* ------------------- temporal resampling (shared) ---------------------- *)

Min(a, b) == IF a < b THEN a ELSE b

\* Variant: the interpolation with align_corners=True.
LinearElementAlignCorners(row, size, o) ==
    LET T == Len(row)
        n == IF size = 1 THEN 0 ELSE (T - 1) * (o - 1)
        d == IF size = 1 THEN 1 ELSE size - 1
        i0 == Min(n \div d, T - 1)
        lambda == Fin(n - d * i0, d)
        i1 == i0 + (IF i0 < T - 1 THEN 1 ELSE 0)
    IN  RAdd(RMul(Fin(lambda.den - lambda.num, lambda.den), row[i0 + 1]),
             RMul(lambda, row[i1 + 1]))

\* One output element of torch.nn.functional.interpolate(mode="linear",
\* align_corners=False) for a row of length Len(row) and output index o
\* (1-based) of size: the source coordinate scale * (o - 1 + 0.5) - 0.5 with
\* scale = Len(row) / size, clamped below at 0, split into the left index i0
\* and the weight lambda of the right neighbour i1.
LinearElement(row, size, o) ==
    LET T == Len(row)
        \* the source coordinate is n / d
        src == T * (2 * (o - 1) + 1) - size
        n == IF src < 0 THEN 0 ELSE src
        d == 2 * size
        i0 == Min(n \div d, T - 1)
        frac == n - d * i0
        lambda == IF frac < 0 THEN Val(0)
                  ELSE IF frac > d THEN Val(1) ELSE Fin(frac, d)
        i1 == i0 + (IF i0 < T - 1 THEN 1 ELSE 0)
    IN  RAdd(RMul(Fin(lambda.den - lambda.num, lambda.den), row[i0 + 1]),
             RMul(lambda, row[i1 + 1]))

\* torch.nn.functional.interpolate(x, size=size, mode="linear") for size >= 1
\* on a tensor indexed [channel][time].
TorchInterpolate(x, size) ==
    [c \in 1 .. Len(x) |-> [o \in 1 .. size |-> LinearElement(x[c], size, o)]]

\* Variant: the target size rounded up.
TargetSizeCeil(x, d) == (Len(x[1]) + d - 1) \div d

\* features.shape[2] // self.downsample
TargetSize(x, d) == Len(x[1]) \div d

\* The tail of both forward methods: return the features as they are when
\* downsample is None, else interpolate them to the target size.  The
\* interpolation raises when the target size is 0.
Resample(x) ==
    IF downsample = None
    THEN /\ result' = x
         /\ pc' = "returned"
         /\ error' = ""
    ELSE IF TargetSize(x, downsample[1]) < 1
    THEN /\ result' = NoTensor
         /\ pc' = "raised"
         /\ error' = "interpolate"
    ELSE /\ result' = TorchInterpolate(x, TargetSize(x, downsample[1]))
         /\ pc' = "returned"
         /\ error' = ""

DownsampleOptions == {None} \cup { Some(d) : d \in 1 .. MaxDown }

(* --------------------------- ChineseHubert ----------------------------- *)

\* The encoder output holds two channels: the resampling acts along the time
\* axis of each channel independently.
HubertChans == 1 .. 2

\* The values an element of the encoder output takes; the interpolation is
\* linear in them.
HubertVals == {0, 1}

\* last_hidden_state of one audio, indexed [time][channel].
HubertOutputs ==
    UNION { { [t \in 1 .. T |-> [c \in HubertChans |-> Val(x[t][c])]] :
                x \in [1 .. T -> [HubertChans -> HubertVals]] } :
            T \in 1 .. MaxT }

ChineseHubert_init ==
    /\ pc = "new"
    /\ \E d \in DownsampleOptions :
        downsample' = d
    /\ kind' = "Hubert"
    /\ pc' = "ready"
    /\ UNCHANGED <<gate_size, models, calls, feature_list, features, indices,
                   result, error>>

ChineseHubert_forward ==
    /\ pc = "ready"
    /\ kind = "Hubert"
    /\ \E h \in HubertOutputs :
        LET f == Transpose(h, Cardinality(HubertChans)) IN
        /\ features' = f
        /\ Resample(f)
    /\ UNCHANGED <<kind, gate_size, downsample, models, calls, feature_list,
                   indices>>

(* --------------------------- EnsembleHubert ---------------------------- *)

\* A pretrained model is named by a number m in 1 .. MaxWidth; its hidden
\* size (channel width) is m.
ModelIds == 1 .. MaxWidth

Width(m) == m

\* Element [time t][channel c] of the output of model m: a value that names
\* where it comes from.
Tag(m, c, t) == m * 100 + c * 10 + t

\* model(input_values).last_hidden_state of model m when it yields T frames.
Encode(m, T) ==
    [t \in 1 .. T |-> [c \in 1 .. Width(m) |-> Val(Tag(m, c, t))]]

ModelLists == UNION { [1 .. n -> ModelIds] : n \in 0 .. MaxModels }

\* __init__ builds one feature extractor and one model per entry of models,
\* in order; nothing checks that the list is non-empty.
EnsembleHubert_init ==
    /\ pc = "new"
    /\ \E ms \in ModelLists, d \in DownsampleOptions :
        /\ models' = ms
        /\ downsample' = d
    /\ kind' = "Ensemble"
    /\ pc' = "ready"
    /\ UNCHANGED <<gate_size, calls, feature_list, features, indices, result,
                   error>>

\* The loop of forward: each model in turn, its output transposed to
\* [channel][time] and appended.
RunModels(ms, lens) ==
    [i \in 1 .. Len(ms) |-> Transpose(Encode(ms[i], lens[ms[i]]), Width(ms[i]))]

\* Variant: a concatenation that accepts differing time lengths.
CatRaisesOnEmpty(list) == Len(list) = 0

\* torch.cat(list, dim=1) raises on an empty list and on tensors whose time
\* lengths differ.
CatRaises(list) ==
    \/ Len(list) = 0
    \/ \E i, j \in 1 .. Len(list) : Len(list[i][1]) # Len(list[j][1])

\* The first n tensors of the list joined along the channel axis.
RECURSIVE CatTo(_, _)
CatTo(list, n) == IF n = 0 THEN <<>> ELSE CatTo(list, n - 1) \o list[n]

\* Variant: the blocks laid out last model first.
RECURSIVE CatReversed(_, _)
CatReversed(list, n) == IF n = 0 THEN <<>> ELSE list[n] \o CatReversed(list, n - 1)

TorchCatReversed(list) == CatReversed(list, Len(list))

\* torch.cat(list, dim=1): the channel rows of each tensor, in list order.
TorchCat(list) == CatTo(list, Len(list))

EnsembleHubert_forward ==
    /\ pc = "ready"
    /\ kind = "Ensemble"
    /\ \E lens \in [ModelIds -> 1 .. MaxLen] :
        LET list == RunModels(models, lens) IN
        /\ calls' = models
        /\ feature_list' = list
        /\ IF CatRaises(list)
           THEN /\ features' = NoTensor
                /\ result' = NoTensor
                /\ pc' = "raised"
                /\ error' = "cat"
           ELSE /\ features' = TorchCat(list)
                /\ Resample(TorchCat(list))
    /\ UNCHANGED <<kind, gate_size, downsample, models, indices>>

Next ==
    \/ ChineseHubertSoft_init
    \/ ChineseHubertSoft_forward
    \/ ChineseHubert_init
    \/ ChineseHubert_forward
    \/ EnsembleHubert_init
    \/ EnsembleHubert_forward

Spec == Init /\ [][Next]_vars

(* ======================= properties of the gate ======================== *)

SoftReturned == pc = "returned" /\ kind = "Soft"

\* The input value of the gate at frame t, channel c.
InAt(t, c) == features[t][c].num

\* The channel slice of the returned tensor at frame t.
OutSlice(t) == [c \in 1 .. Channels |-> result[c][t]]

\* How many channels of frame t hold a value larger than / equal to channel c's.
Larger(t, c) == Cardinality({ j \in 1 .. Channels : InAt(t, j) > InAt(t, c) })
Equal(t, c) == Cardinality({ j \in 1 .. Channels : InAt(t, j) = InAt(t, c) })

\* The sum of the input values of the channels selected at frame t.
RECURSIVE SelSumTo(_, _)
SelSumTo(t, n) ==
    IF n = 0 THEN 0
    ELSE SelSumTo(t, n - 1) + (IF n \in indices[t] THEN InAt(t, n) ELSE 0)

SelSum(t) == SelSumTo(t, Channels)

\* The selection that prefers the lower channel index among equal values.
LowIndexTopk(t) ==
    { c \in 1 .. Channels :
        Larger(t, c)
          + Cardinality({ j \in 1 .. c - 1 : InAt(t, j) = InAt(t, c) })
          < gate_size }

NonZeroCount(t) == Cardinality({ c \in 1 .. Channels : NonZero(result[c][t]) })

NonZeroSum(t) ==
    RowSum([c \in 1 .. Channels |->
              IF NonZero(result[c][t]) THEN result[c][t] ELSE Val(0)])

AllZeroInput(t) == \A c \in 1 .. Channels : InAt(t, c) = 0

SelectedNonZero(t) == \A c \in indices[t] : InAt(t, c) # 0

\* The scenario of the specification, scaled by 10: gate size 2 on the frame
\* [0.1, 0.5, 0.3, 0.9] keeps channels 2 and 4 and yields [0, 5/14, 0, 9/14].
GateScenario ==
    LET row == <<Val(1), Val(5), Val(3), Val(9)>> IN
    /\ TorchTopk(row, 2) = {{2, 4}}
    /\ Gate(<<row>>, <<{2, 4}>>) = <<<<Val(0), Fin(5, 14), Val(0), Fin(9, 14)>>>>

\* C1 (as amended): at every frame the gate selects exactly gate_size
\* channels; a channel whose value is among the gate_size largest whichever
\* way ties are resolved is selected, a channel with gate_size or more
\* strictly larger values is not; a selected channel carries its own input
\* value (over the sum of the selected values) at its own index and every
\* other channel carries zero; values are compared signed.  Which of several
\* channels tied at the boundary is selected is left open.
C1_TopkSelection ==
    /\ GateScenario
    /\ SoftReturned =>
        \A t \in SoftFrames :
            /\ Cardinality(indices[t]) = gate_size
            /\ \A c \in 1 .. Channels :
                /\ Larger(t, c) + Equal(t, c) <= gate_size => c \in indices[t]
                /\ Larger(t, c) >= gate_size => c \notin indices[t]
                /\ result[c][t] =
                     RDiv(Val(IF c \in indices[t] THEN InAt(t, c) ELSE 0),
                          Val(SelSum(t)))

\* C1 (as stated): in addition, among channels tied at the selection
\* boundary the ones with the lower index are retained.
C1_LowerIndexOnTies ==
    SoftReturned =>
        \A t \in SoftFrames :
            /\ Cardinality(indices[t]) = gate_size
            /\ indices[t] = LowIndexTopk(t)

\* A frame with a tie at the boundary where a higher index was retained.
C1_Witness ==
    /\ SoftReturned
    /\ gate_size < Channels
    /\ \E t \in SoftFrames :
        /\ indices[t] # LowIndexTopk(t)
        /\ \E c \in 1 .. Channels : InAt(t, c) < 0

\* C2: at every frame whose selected values have a non-zero sum, the returned
\* channel slice sums to 1 and every retained channel equals its input value
\* divided by that sum, whatever the signs of the selected values.
C2_Normalization ==
    SoftReturned =>
        \A t \in SoftFrames :
            SelSum(t) # 0 =>
                /\ RowSum(OutSlice(t)) = Val(1)
                /\ \A c \in indices[t] :
                      result[c][t] = Fin(InAt(t, c), SelSum(t))

\* A frame whose selected values are all negative.
C2_Witness ==
    /\ SoftReturned
    /\ gate_size >= 2
    /\ \E t \in SoftFrames :
        /\ SelSum(t) < 0
        /\ \A c \in indices[t] : InAt(t, c) < 0

\* C3 (as stated): at every frame whose input is not all zero the returned
\* slice has exactly gate_size non-zero channels and they sum to 1.
C3_ExactlyKUnlessAllZero ==
    SoftReturned =>
        \A t \in SoftFrames :
            ~AllZeroInput(t) =>
                /\ NonZeroCount(t) = gate_size
                /\ NonZeroSum(t) = Val(1)

\* C3 (as amended): at every frame whose selected values have a non-zero sum
\* the non-zero channels of the returned slice sum to 1 and are exactly the
\* selected channels with a non-zero input value, hence gate_size channels
\* when no selected value is zero.
C3_GateInvariant ==
    SoftReturned =>
        \A t \in SoftFrames :
            SelSum(t) # 0 =>
                /\ NonZeroSum(t) = Val(1)
                /\ { c \in 1 .. Channels : NonZero(result[c][t]) }
                     = { c \in indices[t] : InAt(t, c) # 0 }
                /\ SelectedNonZero(t) => NonZeroCount(t) = gate_size

\* A frame that is not all zero, normalises, and has fewer than gate_size
\* non-zero channels because a zero was selected.
C3_Witness ==
    /\ SoftReturned
    /\ \E t \in SoftFrames :
        /\ ~AllZeroInput(t)
        /\ SelSum(t) # 0
        /\ NonZeroCount(t) < gate_size

\* C4: at every frame whose selected values are all non-zero and have a
\* non-zero sum, exactly gate_size entries of the returned slice are non-zero
\* and every channel outside the selection is exactly zero.
C4_Sparsity ==
    SoftReturned =>
        \A t \in SoftFrames :
            (SelectedNonZero(t) /\ SelSum(t) # 0) =>
                /\ NonZeroCount(t) = gate_size
                /\ \A c \in (1 .. Channels) \ indices[t] : IsZero(result[c][t])

\* A frame with a non-zero input value outside the selection.
C4_Witness ==
    /\ SoftReturned
    /\ gate_size < Channels
    /\ \E t \in SoftFrames :
        /\ SelectedNonZero(t)
        /\ SelSum(t) # 0
        /\ \E c \in (1 .. Channels) \ indices[t] : InAt(t, c) # 0

\* C8: a forward call with gate_size <= Channels never raises; at a frame
\* whose gated slice sums to zero every returned element is NaN or infinite,
\* and at every other frame of the same tensor all elements are finite and
\* sum to 1.
C8_DegenerateNormalization ==
    (kind = "Soft" /\ pc \in {"returned", "raised"} /\ gate_size <= Channels) =>
        /\ pc = "returned"
        /\ error = ""
        /\ \A t \in SoftFrames :
            IF SelSum(t) = 0
            THEN \A c \in 1 .. Channels : ~IsFinite(result[c][t])
            ELSE /\ \A c \in 1 .. Channels : IsFinite(result[c][t])
                 /\ RowSum(OutSlice(t)) = Val(1)

\* A tensor with one frame whose selected values are all zero and another
\* frame that normalises.
C8_Witness ==
    /\ SoftReturned
    /\ \E t1, t2 \in SoftFrames :
        /\ \A c \in indices[t1] : InAt(t1, c) = 0
        /\ SelSum(t2) # 0

(* ===================== properties of the resampler ===================== *)

\* A forward call of ChineseHubert or EnsembleHubert reached its resampling
\* stage.
AtResampler ==
    /\ kind \in {"Hubert", "Ensemble"}
    /\ pc \in {"returned", "raised"}
    /\ error # "cat"

\* Time length of the features entering the resampling stage.
InLen == Len(features[1])

SameShapeButTime(n) ==
    /\ Len(result) = Len(features)
    /\ \A c \in 1 .. Len(result) : Len(result[c]) = n

\* C5 (as stated): for every time length T and factor d >= 1 the call returns
\* a tensor of time length T \div d with the channel count unchanged, equal
\* to the input when d = 1; with downsample None the features are returned
\* unchanged.
C5_LengthForEveryT ==
    AtResampler =>
        /\ pc = "returned"
        /\ IF downsample = None
           THEN result = features
           ELSE /\ SameShapeButTime(InLen \div downsample[1])
                /\ downsample[1] = 1 => result = features

\* C5 (as amended): the same for every T >= d; when T < d the target length
\* is 0, the interpolation raises and no tensor is returned.
C5_ResamplerLength ==
    AtResampler =>
        IF downsample = None
        THEN pc = "returned" /\ result = features
        ELSE IF InLen >= downsample[1]
        THEN /\ pc = "returned"
             /\ SameShapeButTime(InLen \div downsample[1])
             /\ downsample[1] = 1 => result = features
        ELSE /\ pc = "raised"
             /\ error = "interpolate"
             /\ result = NoTensor

\* A returned call whose time length is not a multiple of the factor.
C5_Witness ==
    /\ AtResampler
    /\ pc = "returned"
    /\ downsample # None
    /\ downsample[1] >= 2
    /\ InLen % downsample[1] # 0
    /\ Len(result) >= 2

\* a <= x <= b or b <= x <= a
Between(x, a, b) ==
    \/ RLeq(a, x) /\ RLeq(x, b)
    \/ RLeq(b, x) /\ RLeq(x, a)

\* The scenario of the specification: the row 0 .. 7 resampled by 2.
ResampleScenario ==
    TorchInterpolate(<<[t \in 1 .. 8 |-> Val(t - 1)]>>, 4)
        = <<<<Fin(1, 2), Fin(5, 2), Fin(9, 2), Fin(13, 2)>>>>

\* C7: with factor 2 and an even time length T, output frame i of every
\* channel row is the mean of input frames 2i and 2i+1 (counted from 0); and
\* every resampled value lies between two adjacent input frames of its row.
C7_LinearValues ==
    /\ ResampleScenario
    /\ (AtResampler /\ pc = "returned" /\ downsample # None) =>
        \A c \in 1 .. Len(result) : \A o \in 1 .. Len(result[c]) :
            /\ (downsample[1] = 2 /\ InLen % 2 = 0) =>
                  result[c][o] =
                    RMul(Fin(1, 2),
                         RAdd(features[c][2 * o - 1], features[c][2 * o]))
            /\ \E j \in 1 .. InLen :
                  Between(result[c][o], features[c][j],
                          features[c][Min(j + 1, InLen)])

\* ChineseHubert resampled a row of four frames whose halves differ.
C7_Witness ==
    /\ kind = "Hubert"
    /\ pc = "returned"
    /\ downsample = Some(2)
    /\ InLen = 4
    /\ \E c \in 1 .. Len(features) :
        /\ features[c][1] # features[c][2]
        /\ features[c][3] # features[c][4]
        /\ features[c][2] # features[c][3]

(* ====================== properties of the ensemble ===================== *)

RECURSIVE WidthsTo(_, _)
WidthsTo(ms, n) == IF n = 0 THEN 0 ELSE WidthsTo(ms, n - 1) + Width(ms[n])

\* First channel (0-based) of the block of the i-th configured model.
Offset(i) == WidthsTo(models, i - 1)

\* C6: forward runs the encoders in the order of the model list and the
\* concatenated features hold sum(C_i) channels, the i-th block being the
\* (transposed) output of the i-th configured encoder at every frame; with
\* downsample None this tensor is the one returned.
C6_EnsembleOrdering ==
    (kind = "Ensemble" /\ pc \in {"returned", "raised"} /\ error # "cat") =>
        /\ calls = models
        /\ Len(features) = WidthsTo(models, Len(models))
        /\ \A i \in 1 .. Len(models) : \A c \in 1 .. Width(models[i]) :
            /\ features[Offset(i) + c] = feature_list[i][c]
            /\ \A t \in 1 .. InLen :
                  features[Offset(i) + c][t] = Val(Tag(models[i], c, t))
        /\ (pc = "returned" /\ downsample = None) => result = features

\* Two different encoders listed with the wider one first, more than one frame.
C6_Witness ==
    /\ kind = "Ensemble"
    /\ pc = "returned"
    /\ downsample = None
    /\ Len(models) >= 2
    /\ models[1] > models[2]
    /\ InLen >= 2

(* ==================== properties of error handling ===================== *)

\* C9: a ChineseHubertSoft with gate_size above the channel width, and an
\* EnsembleHubert with an empty model list, are constructed without error;
\* the error is raised by top-k, respectively by the concatenation, inside
\* forward, which returns no tensor.
C9_LazyConfigurationErrors ==
    /\ (kind = "Soft" /\ gate_size > Channels) =>
          \/ pc = "ready" /\ error = "" /\ result = NoTensor
          \/ pc = "raised" /\ error = "topk" /\ result = NoTensor
    /\ (kind = "Ensemble" /\ models = <<>>) =>
          \/ pc = "ready" /\ error = "" /\ result = NoTensor
          \/ pc = "raised" /\ error = "cat" /\ result = NoTensor /\ calls = <<>>

\* forward was called on the gate whose gate_size exceeds the channel width.
C9_Witness ==
    /\ kind = "Soft"
    /\ gate_size > Channels
    /\ pc = "raised"

\* forward was called on the ensemble without models.
C9_WitnessEnsemble ==
    /\ kind = "Ensemble"
    /\ models = <<>>
    /\ pc = "raised"

\* Two members of the list produced different time lengths.
LengthsDiffer ==
    \E i, j \in 1 .. Len(feature_list) :
        Len(feature_list[i][1]) # Len(feature_list[j][1])

\* C10: when two members produce different time lengths, every configured
\* encoder has been run, each output is in the list with its own length, the
\* concatenation raises and nothing is returned.
C10_ShapeMismatch ==
    (kind = "Ensemble" /\ pc \in {"returned", "raised"} /\ LengthsDiffer) =>
        /\ pc = "raised"
        /\ error = "cat"
        /\ result = NoTensor
        /\ features = NoTensor
        /\ calls = models
        /\ Len(feature_list) = Len(models)
        /\ \A i \in 1 .. Len(models) :
              Len(feature_list[i]) = Width(models[i])

\* A mismatch between the last two of three members, with downsample set.
C10_Witness ==
    /\ kind = "Ensemble"
    /\ pc = "raised"
    /\ Len(models) = 3
    /\ downsample # None
    /\ Len(feature_list[1][1]) = Len(feature_list[2][1])
    /\ Len(feature_list[2][1]) # Len(feature_list[3][1])

====
